---- MODULE Spec2Model ----
(***************************************************************************)
(* The survey-message lifecycle of sms_survey.py: the store tables, the    *)
(* delivery gateway, SMSService.send_survey_message, the scheduler's       *)
(* daily batch, the admin test send and the inbound SMS webhook.           *)
(* The scheduler job and each request handler run on their own thread;     *)
(* a step of a thread ends with a store query, a commit or a return.       *)
(***************************************************************************)
EXTENDS Integers, Sequences, FiniteSets, TLC

\* ------------------------------------------------------------------ bounds
NumUsers == 2        \* rows of a stored User table
NumRequests == 2     \* request-handling threads beside the scheduler thread
MaxCalls == 2        \* handler and job runs in a behaviour with threads
MaxSeqCalls == 2     \* handler and job runs in a behaviour without overlap
MaxParts == 4        \* '/'-separated parts of an inbound body
MaxCampaigns == 2    \* rows of the Campaign table when a message comes in
MaxPurges == 2       \* runs of cleanup_old_data

\* ------------------------------------------------------------ the universe
Scheduler == 0
Requests == 1..NumRequests
Threads == {Scheduler} \cup Requests
NoSid == << >>
NoDate == -1
SampleName == "Sample Campaign"
TestName == "Test Campaign"

VARIABLES
    today,      \* date.today()
    use_mock,   \* SMSService.use_mock, from the environment
    users,      \* table User: sequence of rows, id = index
    campaigns,  \* table Campaign: sequence of rows, id = index
    messages,   \* table SurveyMessage: set of rows
    responses,  \* table Response: sequence of rows, id = index
    outbox,     \* every request made to the delivery gateway
    inbound,    \* the inbound SMS the provider posts to the webhook
    calls,      \* handler and job runs that may still start
    pc,         \* per thread: where it is
    loc,        \* per thread: local variables of the running handler
    reply,      \* per request thread: the HTTP reply of its last handler
    returned,   \* every completed call of send_survey_message
    log,        \* what cleanup_old_data logged: the count of every run
    result      \* what the last run of cleanup_old_data returned

vars == <<today, use_mock, users, campaigns, messages, responses, outbox,
          inbound, calls, pc, loc, reply, returned, log, result>>

config == <<today, use_mock, inbound>>
store == <<users, campaigns, messages, responses>>

\* ----------------------------------------------------------------- helpers
Max(S) == CHOOSE x \in S : \A y \in S : y <= x
Min(S) == CHOOSE x \in S : \A y \in S : x <= y

\* the ids 1..n, in id order
Ids(n) == [i \in 1..n |-> i]

Loc0 == [user |-> 0, campaign |-> 0, date |-> NoDate, msg |-> 0, ok |-> TRUE,
         sid |-> NoSid, cq |-> << >>, uq |-> << >>, phone |-> 0, url |-> << >>,
         old |-> {}]
\* the value of a function that ends without a return statement
None == << >>
NoReply == [status |-> 0, error |-> "", feedback_url |-> << >>]
\* a reply that reports every error as a bad request
ReplyBadRequest(status, error) ==
    [status |-> IF status = 200 THEN status ELSE 400, error |-> error,
     feedback_url |-> << >>]
\* jsonify({'error': ...}), status
Reply(status, error) == [status |-> status, error |-> error, feedback_url |-> << >>]

\* ------------------------------------------------------------------ tables
\* a range check that leaves the end date out
is_running_before_end(c) == c.is_active /\ c.start_date <= today /\ today < c.end_date
\* Campaign.is_running
is_running(c) == c.is_active /\ c.start_date <= today /\ today <= c.end_date

\* a lookup by the day before the survey date
ExistingYesterday(u, c, d) ==
    {m \in messages : m.user_id = u /\ m.campaign_id = c /\ m.survey_date = d - 1}
\* a lookup that takes only delivered rows for existing ones
ExistingSent(u, c, d) ==
    {m \in messages : m.user_id = u /\ m.campaign_id = c /\ m.survey_date = d
                      /\ m.status = "sent"}
\* the rows of SurveyMessage with this key (filter_by of send_survey_message)
Existing(u, c, d) ==
    {m \in messages : m.user_id = u /\ m.campaign_id = c /\ m.survey_date = d}

\* the id the store gives the next SurveyMessage row
NextMessageId == IF messages = {} THEN 1 ELSE Max({m.id : m \in messages}) + 1

\* a lookup that falls back on every user when no phone number matches
UsersByPhoneOrAll(p) ==
    IF \E i \in 1..Len(users) : users[i].phone_number = p
    THEN {i \in 1..Len(users) : users[i].phone_number = p}
    ELSE 1..Len(users)
\* a lookup that takes only users who were sent today's survey
UsersByPhoneSurveyed(p) ==
    {i \in 1..Len(users) :
        /\ users[i].phone_number = p
        /\ \E m \in messages : m.user_id = i /\ m.survey_date = today}
\* User.query.filter_by(phone_number=...)
UsersByPhone(p) == {i \in 1..Len(users) : users[i].phone_number = p}
CampaignsByName(n) == {i \in 1..Len(campaigns) : campaigns[i].name = n}
\* a filter that takes every stored user
UserStored(i) == i \in 1..Len(users)
\* User.query.filter_by(is_active=True)
UserActive(i) == users[i].is_active
CampaignActive(i) == campaigns[i].is_active
\* Campaign.query.first(): the first campaign, with is_active set or not
FirstCampaign == IF campaigns = << >> THEN {} ELSE {1}
\* a campaign query without the is_active filter
AllCampaigns == 1..Len(campaigns)
\* a campaign query that asks for is_running
RunningCampaigns ==
    {i \in 1..Len(campaigns) :
        /\ campaigns[i].is_active
        /\ campaigns[i].start_date <= today /\ today <= campaigns[i].end_date}
\* Campaign.query.filter_by(is_active=True)
ActiveCampaigns == {i \in 1..Len(campaigns) : CampaignActive(i)}

\* ------------------------------------------------------- delivery gateway
\* len(self.sent_messages) of the MockSMSService the thread uses: the
\* scheduler keeps one SMSService for its life, a request handler builds a
\* new one on every request
MockSentCount(t) ==
    IF t = Scheduler
    THEN Cardinality({r \in outbox : r.svc = Scheduler})
    ELSE 0

\* MockSMSService.send_sms: the message id, mock_<count + 1>_<timestamp>; the
\* clock stands still in a behaviour, so every send has the same timestamp,
\* as sends within one second have
MockSid(t) == <<"mock", MockSentCount(t) + 1, today>>

\* the id the provider gives a message accepted through the real client:
\* one per accepted request
ProviderSid(kind, ref) == <<"SM", ref, IF kind = "survey" THEN 0 ELSE 1>>

\* the outcomes the gateway call can have: the mock never raises
SendOutcomes == IF use_mock THEN {TRUE} ELSE BOOLEAN

GatewaySid(t, kind, ref, ok) ==
    IF ~ok THEN NoSid ELSE IF use_mock THEN MockSid(t) ELSE ProviderSid(kind, ref)

\* a send_sms that does the delivery itself before it returns
StatusAfterDelivery == "delivered"
\* MockSMSService.send_sms: the status of the message it returns
StatusAtReturn == "queued"

\* one request to the gateway; user, campaign, date and ref tell which
\* SurveyMessage or Response caused it; status is the one of the message
\* the MockSMSService keeps
Request(t, kind, to, body, u, c, d, ref, ok) ==
    [kind |-> kind, to |-> to, body |-> body, user |-> u, campaign |-> c,
     date |-> d, ref |-> ref, ok |-> ok, sid |-> GatewaySid(t, kind, ref, ok),
     svc |-> t, status |-> IF use_mock THEN StatusAtReturn ELSE "none"]

\* a delivery thread that notes the delivery in delivery_status only and
\* leaves the message as it is
simulate_delivery_status_only(r) ==
    /\ r.status = "queued"
    /\ outbox' = outbox
    /\ UNCHANGED <<config, log, result, store, calls, pc, loc, reply, returned>>
\* simulate_delivery, on the thread send_sms started: the thread sleeps
\* mock_delivery_delay seconds first, so its step comes after the step in
\* which send_sms returned; then the message is marked delivered
simulate_delivery(r) ==
    /\ r.status = "queued"
    /\ outbox' = (outbox \ {r}) \cup {[r EXCEPT !.status = "delivered"]}
    /\ UNCHANGED <<config, log, result, store, calls, pc, loc, reply, returned>>

\* SMSService._generate_survey_message: the body is rendered from the date
\* (and the user's name, which the model does not keep)
SurveyBody(d) == <<"Daily Wellbeing Check-in", d>>

\* --------------------------------------------------- send_survey_message
\* Consecutive queries whose answers no other thread can change (a user
\* once found by phone number, a campaign once found by name) are taken in
\* one step with the query after them; so are the evaluations of
\* is_running, which read no table.  The gateway call and the commit of
\* its outcome are one step: no thread reads what the gateway was sent.

\* the campaigns still to do, from the first that is running
RECURSIVE NextRunning(_)
NextRunning(cq) ==
    IF cq = << >> THEN cq
    ELSE IF is_running(campaigns[Head(cq)]) THEN cq
    ELSE NextRunning(Tail(cq))

\* a loop without the try: a call that raises ends the job
BatchAbort(t, raised) ==
    IF ~raised /\ Tail(loc[t].uq) # << >>
    THEN /\ pc' = [pc EXCEPT ![t] = "batch_user"]
         /\ loc' = [loc EXCEPT ![t] =
               [Loc0 EXCEPT !.cq = loc[t].cq, !.uq = Tail(loc[t].uq)]]
    ELSE IF ~raised /\ NextRunning(Tail(loc[t].cq)) # << >>
    THEN /\ pc' = [pc EXCEPT ![t] = "batch_users"]
         /\ loc' = [loc EXCEPT ![t] =
               [Loc0 EXCEPT !.cq = NextRunning(Tail(loc[t].cq))]]
    ELSE /\ pc' = [pc EXCEPT ![t] = "idle"]
         /\ loc' = [loc EXCEPT ![t] = Loc0]
\* send_daily_surveys after a call: the except clause logs, and the loop
\* goes on with the next user, with the next running campaign, or is done
BatchContinue(t, raised) ==
    IF Tail(loc[t].uq) # << >>
    THEN /\ pc' = [pc EXCEPT ![t] = "batch_user"]
         /\ loc' = [loc EXCEPT ![t] =
               [Loc0 EXCEPT !.cq = loc[t].cq, !.uq = Tail(loc[t].uq)]]
    ELSE IF NextRunning(Tail(loc[t].cq)) # << >>
    THEN /\ pc' = [pc EXCEPT ![t] = "batch_users"]
         /\ loc' = [loc EXCEPT ![t] =
               [Loc0 EXCEPT !.cq = NextRunning(Tail(loc[t].cq))]]
    ELSE /\ pc' = [pc EXCEPT ![t] = "idle"]
         /\ loc' = [loc EXCEPT ![t] = Loc0]

\* what the caller does when send_survey_message returns row m (existing:
\* the lookup found it) or raises
Return(t, m, existing, raised) ==
    /\ returned' = returned \cup
          {[user |-> m.user_id,
            campaign |-> m.campaign_id, date |-> m.survey_date, id |-> m.id,
            status |-> m.status, existing |-> existing, raised |-> raised,
            caller |-> IF t = Scheduler THEN "batch" ELSE "test"]}
    /\ IF t = Scheduler
       THEN /\ BatchContinue(t, raised)
            /\ UNCHANGED reply
       ELSE \* test_sms answers 200, or 500 from its except clause
            /\ pc' = [pc EXCEPT ![t] = "idle"]
            /\ loc' = [loc EXCEPT ![t] = Loc0]
            /\ reply' = [reply EXCEPT ![t] =
                  IF raised THEN Reply(500, "send failed")
                  ELSE Reply(200, "")]

\* a lookup that sends again for a row whose send failed
send_survey_message_retry(t, u, c) ==
    LET survey_date == today
        existing_message == Existing(u, c, survey_date)
    IN  IF existing_message # {}
        THEN \E m \in existing_message :
                IF m.status = "failed"
                THEN /\ pc' = [pc EXCEPT ![t] = "d_send"]
                     /\ loc' = [loc EXCEPT ![t].user = u, ![t].campaign = c,
                                           ![t].date = survey_date, ![t].msg = m.id]
                     /\ UNCHANGED <<config, log, result, store, outbox, reply, returned>>
                ELSE /\ Return(t, m, TRUE, FALSE)
                     /\ UNCHANGED <<config, log, result, store, outbox>>
        ELSE /\ pc' = [pc EXCEPT ![t] = "d_insert"]
             /\ loc' = [loc EXCEPT ![t].user = u, ![t].campaign = c,
                                   ![t].date = survey_date]
             /\ UNCHANGED <<config, log, result, store, outbox, reply, returned>>
\* the lookup of send_survey_message(user, campaign), in the caller's step
send_survey_message(t, u, c) ==
    LET survey_date == today
        existing_message == Existing(u, c, survey_date)
    IN  IF existing_message # {}
        THEN \* Query.first()
             /\ \E m \in existing_message : Return(t, m, TRUE, FALSE)
             /\ UNCHANGED <<config, log, result, store, outbox>>
        ELSE /\ pc' = [pc EXCEPT ![t] = "d_insert"]
             /\ loc' = [loc EXCEPT ![t].user = u, ![t].campaign = c,
                                   ![t].date = survey_date]
             /\ UNCHANGED <<config, log, result, store, outbox, reply, returned>>

\* a row that is stored as sent before the gateway was called
PendingRowSent(id, u, c, d) ==
    [id |-> id, user_id |-> u, campaign_id |-> c, survey_date |-> d,
     message_sid |-> NoSid, status |-> "sent", sent_at |-> NoDate]
\* the SurveyMessage row the call creates
PendingRow(id, u, c, d) ==
    [id |-> id, user_id |-> u, campaign_id |-> c, survey_date |-> d,
     message_sid |-> NoSid, status |-> "pending", sent_at |-> NoDate]

\* an insert that is not committed before the gateway is called
InsertUncommitted(t) ==
    /\ pc[t] = "d_insert"
    /\ loc' = [loc EXCEPT ![t].msg = NextMessageId]
    /\ pc' = [pc EXCEPT ![t] = "d_send"]
    /\ UNCHANGED <<config, log, result, store, outbox, calls, reply, returned>>
\* db.session.add(survey_message); db.session.commit()
InsertPending(t) ==
    /\ pc[t] = "d_insert"
    /\ LET id == NextMessageId
       IN  /\ messages' = messages \cup
                 {PendingRow(id, loc[t].user, loc[t].campaign, loc[t].date)}
           /\ loc' = [loc EXCEPT ![t].msg = id]
    /\ pc' = [pc EXCEPT ![t] = "d_send"]
    /\ UNCHANGED <<config, log, result, users, campaigns, responses, outbox, calls, reply, returned>>

\* a success path that leaves sent_at out
MarkSentNoStamp(m, sid) == [m EXCEPT !.message_sid = sid, !.status = "sent"]
\* the row of the SurveyMessage the thread holds, after the success path
MarkSent(m, sid) == [m EXCEPT !.message_sid = sid, !.sent_at = today, !.status = "sent"]
\* an except clause that leaves the row as it was
MarkFailedKeep(m) == m
\* the same, after the except clause
MarkFailed(m) == [m EXCEPT !.status = "failed"]

\* the try block: the gateway call, the commit of the success path or of
\* the except clause, and the return or the raise
SendAndRecord(t) ==
    /\ pc[t] = "d_send"
    /\ \E ok \in SendOutcomes :
          LET req == Request(t, "survey", users[loc[t].user].phone_number,
                             SurveyBody(loc[t].date),
                             loc[t].user, loc[t].campaign, loc[t].date, loc[t].msg, ok)
              Outcome(m) == IF ok THEN MarkSent(m, req.sid) ELSE MarkFailed(m)
          IN  /\ outbox' = outbox \cup {req}
              /\ messages' = {IF m.id = loc[t].msg THEN Outcome(m) ELSE m : m \in messages}
              /\ \E m \in {x \in messages : x.id = loc[t].msg} :
                    Return(t, Outcome(m), FALSE, ~ok)
    /\ UNCHANGED <<config, log, result, users, campaigns, responses, calls>>

\* client.messages.create neither returns nor raises: the call is made
\* without a timeout, and the thread stays in it
GatewayHangs(t) ==
    /\ pc[t] = "d_send"
    /\ ~use_mock
    /\ pc' = [pc EXCEPT ![t] = "d_hung"]
    /\ UNCHANGED <<config, log, result, store, outbox, calls, loc, reply, returned>>

\* the try block when the gateway accepts the message and the commit of the
\* success path raises: the commit rolls back, the except clause sets
\* status failed and commits, and that commit stores the row as failed or
\* raises as well and leaves it pending; the call raises either way
RecordFails(t) ==
    /\ pc[t] = "d_send"
    /\ \E stored \in BOOLEAN :
          LET req == Request(t, "survey", users[loc[t].user].phone_number,
                             SurveyBody(loc[t].date),
                             loc[t].user, loc[t].campaign, loc[t].date, loc[t].msg, TRUE)
              Outcome(m) == IF stored THEN MarkFailed(m) ELSE m
          IN  /\ outbox' = outbox \cup {req}
              /\ messages' = {IF m.id = loc[t].msg THEN Outcome(m) ELSE m : m \in messages}
              /\ \E m \in {x \in messages : x.id = loc[t].msg} :
                    Return(t, Outcome(m), FALSE, TRUE)
    /\ UNCHANGED <<config, log, result, users, campaigns, responses, calls>>

\* ------------------------------------------------------ send_daily_surveys
\* Campaign.query.filter_by(is_active=True).all(), up to the first campaign
\* that is running
send_daily_surveys(t) ==
    /\ t = Scheduler
    /\ pc[t] = "idle"
    /\ calls > 0
    /\ calls' = calls - 1
    /\ LET cq == NextRunning(SelectSeq(Ids(Len(campaigns)), CampaignActive))
       IN  IF cq = << >>
           THEN UNCHANGED <<pc, loc>>
           ELSE /\ pc' = [pc EXCEPT ![t] = "batch_users"]
                /\ loc' = [loc EXCEPT ![t].cq = cq]
    /\ UNCHANGED <<config, log, result, store, outbox, reply, returned>>

\* active_users = User.query.filter_by(is_active=True).all()
BatchUsers(t) ==
    /\ pc[t] = "batch_users"
    /\ LET uq == SelectSeq(Ids(Len(users)), UserActive)
       IN  IF uq # << >>
           THEN /\ pc' = [pc EXCEPT ![t] = "batch_user"]
                /\ loc' = [loc EXCEPT ![t].uq = uq]
           ELSE IF NextRunning(Tail(loc[t].cq)) # << >>
           THEN /\ pc' = pc
                /\ loc' = [loc EXCEPT ![t].cq = NextRunning(Tail(loc[t].cq))]
           ELSE /\ pc' = [pc EXCEPT ![t] = "idle"]
                /\ loc' = [loc EXCEPT ![t] = Loc0]
    /\ UNCHANGED <<config, log, result, store, outbox, calls, reply, returned>>

\* for user in active_users: try: send_survey_message(user, campaign)
BatchUser(t) ==
    /\ pc[t] = "batch_user"
    /\ send_survey_message(t, Head(loc[t].uq), Head(loc[t].cq))
    /\ UNCHANGED calls

\* --------------------------------------------------------- cleanup_old_data
\* timedelta(days=90)
RetentionDays == 90

\* a filter whose cutoff lies 90 days after today
OldMessagesAhead == {m \in messages : m.survey_date < today + RetentionDays}
\* a filter that takes the rows of the cutoff date too
OldMessagesInclusive == {m \in messages : m.survey_date <= today - RetentionDays}
\* SurveyMessage.query.filter(SurveyMessage.survey_date < cutoff_date)
OldMessages == {m \in messages : m.survey_date < today - RetentionDays}

\* old_messages = ....all()
cleanup_old_data(t) ==
    /\ t = Scheduler
    /\ pc[t] = "idle"
    /\ calls > 0
    /\ calls' = calls - 1
    /\ pc' = [pc EXCEPT ![t] = "purge"]
    /\ loc' = [loc EXCEPT ![t].old = {m.id : m \in OldMessages}]
    /\ UNCHANGED <<config, log, result, store, outbox, reply, returned>>

\* a job that logs how many rows are left
PurgeCommitLogsRest(t) ==
    /\ pc[t] = "purge"
    /\ messages' = {m \in messages : m.id \notin loc[t].old}
    /\ log' = Append(log, Cardinality(messages'))
    /\ result' = None
    /\ pc' = [pc EXCEPT ![t] = "idle"]
    /\ loc' = [loc EXCEPT ![t] = Loc0]
    /\ UNCHANGED <<config, users, campaigns, responses, outbox, calls, reply, returned>>
\* db.session.delete(message) for each of them, db.session.commit() and the
\* log line with len(old_messages); the job ends without a return statement
PurgeCommit(t) ==
    /\ pc[t] = "purge"
    /\ messages' = {m \in messages : m.id \notin loc[t].old}
    /\ log' = Append(log, Cardinality(loc[t].old))
    /\ result' = None
    /\ pc' = [pc EXCEPT ![t] = "idle"]
    /\ loc' = [loc EXCEPT ![t] = Loc0]
    /\ UNCHANGED <<config, users, campaigns, responses, outbox, calls, reply, returned>>

\* ---------------------------------------------------------------- test_sms
\* Campaign.query.filter_by(name='Test Campaign').first(), and the call of
\* send_survey_message when there is one
\* a handler that makes a new test campaign for every test send
NewTestCampaign(t, u) ==
    /\ pc' = [pc EXCEPT ![t] = "t_addcampaign"]
    /\ loc' = [loc EXCEPT ![t].user = u]
    /\ reply' = [reply EXCEPT ![t] = NoReply]
    /\ UNCHANGED <<config, log, result, store, outbox, returned>>
FindTestCampaign(t, u) ==
    IF CampaignsByName(TestName) = {}
    THEN /\ pc' = [pc EXCEPT ![t] = "t_addcampaign"]
         /\ loc' = [loc EXCEPT ![t].user = u]
         /\ reply' = [reply EXCEPT ![t] = NoReply]
         /\ UNCHANGED <<config, log, result, store, outbox, returned>>
    ELSE \E c \in CampaignsByName(TestName) : send_survey_message(t, u, c)

\* the phone number check and the user lookup
test_sms(t, phone_number) ==
    /\ t \in Requests
    /\ pc[t] = "idle"
    /\ calls > 0
    /\ calls' = calls - 1
    /\ IF phone_number = 0
       THEN /\ reply' = [reply EXCEPT ![t] = Reply(400, "Phone number is required")]
            /\ UNCHANGED <<pc, loc, config, log, result, store, outbox, returned>>
       ELSE IF UsersByPhone(phone_number) = {}
       THEN /\ pc' = [pc EXCEPT ![t] = "t_adduser"]
            /\ loc' = [loc EXCEPT ![t].phone = phone_number]
            /\ reply' = [reply EXCEPT ![t] = NoReply]
            /\ UNCHANGED <<config, log, result, store, outbox, returned>>
       ELSE FindTestCampaign(t, Min(UsersByPhone(phone_number)))

\* db.session.add(user); db.session.commit(): phone_number is unique
TestAddUser(t) ==
    /\ pc[t] = "t_adduser"
    /\ IF UsersByPhone(loc[t].phone) # {}
       THEN \* IntegrityError, caught by the handler's except clause
            /\ pc' = [pc EXCEPT ![t] = "idle"]
            /\ loc' = [loc EXCEPT ![t] = Loc0]
            /\ reply' = [reply EXCEPT ![t] = Reply(500, "IntegrityError")]
            /\ UNCHANGED users
       ELSE /\ users' = Append(users, [phone_number |-> loc[t].phone, is_active |-> TRUE])
            /\ loc' = [loc EXCEPT ![t].user = Len(users) + 1]
            /\ pc' = [pc EXCEPT ![t] = "t_campaign"]
            /\ UNCHANGED reply
    /\ UNCHANGED <<config, log, result, campaigns, messages, responses, outbox, calls, returned>>

\* the campaign lookup after the user was created
TestCampaign(t) ==
    /\ pc[t] = "t_campaign"
    /\ FindTestCampaign(t, loc[t].user)
    /\ UNCHANGED calls

\* db.session.add(campaign); db.session.commit()
TestAddCampaign(t) ==
    /\ pc[t] = "t_addcampaign"
    /\ campaigns' = Append(campaigns,
          [name |-> TestName, start_date |-> today, end_date |-> today + 30,
           is_active |-> TRUE])
    /\ loc' = [loc EXCEPT ![t].campaign = Len(campaigns) + 1]
    /\ pc' = [pc EXCEPT ![t] = "t_dispatch"]
    /\ UNCHANGED <<config, log, result, users, messages, responses, outbox, calls, reply, returned>>

\* sms_service = SMSService(); sms_service.send_survey_message(user, campaign)
TestDispatch(t) ==
    /\ pc[t] = "t_dispatch"
    /\ send_survey_message(t, loc[t].user, loc[t].campaign)
    /\ UNCHANGED calls

\* ---------------------------------------------------------------- add_user
\* the check of the two fields and the lookup by phone number
add_user(t, name, phone_number) ==
    /\ t \in Requests
    /\ pc[t] = "idle"
    /\ calls > 0
    /\ calls' = calls - 1
    /\ IF ~name \/ phone_number = 0
       THEN /\ reply' = [reply EXCEPT ![t] =
                  Reply(400, "Name and phone number are required")]
            /\ UNCHANGED <<pc, loc>>
       ELSE IF UsersByPhone(phone_number) # {}
       THEN /\ reply' = [reply EXCEPT ![t] =
                  Reply(400, "User with this phone number already exists")]
            /\ UNCHANGED <<pc, loc>>
       ELSE /\ pc' = [pc EXCEPT ![t] = "a_adduser"]
            /\ loc' = [loc EXCEPT ![t].phone = phone_number]
            /\ reply' = [reply EXCEPT ![t] = NoReply]
    /\ UNCHANGED <<config, log, result, store, outbox, returned>>

\* a table without the unique constraint on phone_number
AddUserNoConstraint(t) ==
    /\ pc[t] = "a_adduser"
    /\ users' = Append(users, [phone_number |-> loc[t].phone, is_active |-> TRUE])
    /\ reply' = [reply EXCEPT ![t] = Reply(200, "")]
    /\ pc' = [pc EXCEPT ![t] = "idle"]
    /\ loc' = [loc EXCEPT ![t] = Loc0]
    /\ UNCHANGED <<config, log, result, campaigns, messages, responses, outbox, calls, returned>>
\* db.session.add(new_user); db.session.commit(): phone_number is unique,
\* and the IntegrityError of a second row with the number is answered 500
AddUserCommit(t) ==
    /\ pc[t] = "a_adduser"
    /\ IF UsersByPhone(loc[t].phone) # {}
       THEN /\ reply' = [reply EXCEPT ![t] = Reply(500, "IntegrityError")]
            /\ UNCHANGED users
       ELSE /\ users' = Append(users, [phone_number |-> loc[t].phone, is_active |-> TRUE])
            /\ reply' = [reply EXCEPT ![t] = Reply(200, "")]
    /\ pc' = [pc EXCEPT ![t] = "idle"]
    /\ loc' = [loc EXCEPT ![t] = Loc0]
    /\ UNCHANGED <<config, log, result, campaigns, messages, responses, outbox, calls, returned>>

\* ------------------------------------------------- the inbound body
\* a body is a sequence of one-character strings
Digits == <<"0", "1", "2", "3", "4", "5", "6", "7", "8", "9">>
IsDigit(ch) == \E i \in 1..Len(Digits) : Digits[i] = ch
DigitValue(ch) == (CHOOSE i \in 1..Len(Digits) : Digits[i] = ch) - 1

\* str.strip()
RECURSIVE strip(_)
strip(s) ==
    IF s = << >> THEN s
    ELSE IF Head(s) = " " THEN strip(Tail(s))
    ELSE IF s[Len(s)] = " " THEN strip(SubSeq(s, 1, Len(s) - 1))
    ELSE s

\* a split that stops after n separators and leaves the rest in the last part
RECURSIVE SplitAtMost(_, _)
SplitAtMost(s, n) ==
    LET at == {i \in 1..Len(s) : s[i] = "/"}
    IN  IF at = {} \/ n = 0 THEN <<s>>
        ELSE <<SubSeq(s, 1, Min(at) - 1)>>
                \o SplitAtMost(SubSeq(s, Min(at) + 1, Len(s)), n - 1)
\* str.split('/', 3)
split_first_three(s) == SplitAtMost(s, 3)
\* str.split('/')
RECURSIVE split(_)
split(s) ==
    LET at == {i \in 1..Len(s) : s[i] = "/"}
    IN  IF at = {} THEN <<s>>
        ELSE <<SubSeq(s, 1, Min(at) - 1)>> \o split(SubSeq(s, Min(at) + 1, Len(s)))

\* int(): an optional sign and at least one digit, else ValueError
Unsigned(s) == IF s # << >> /\ Head(s) \in {"+", "-"} THEN Tail(s) ELSE s
\* a check that lets the empty string through
is_int_or_empty(s) == \A i \in 1..Len(Unsigned(s)) : IsDigit(Unsigned(s)[i])
is_int(s) == Unsigned(s) # << >> /\ \A i \in 1..Len(Unsigned(s)) : IsDigit(Unsigned(s)[i])
RECURSIVE Magnitude(_)
Magnitude(d) ==
    IF d = << >> THEN 0
    ELSE 10 * Magnitude(SubSeq(d, 1, Len(d) - 1)) + DigitValue(d[Len(d)])
\* a conversion that brings the value into 1..10
int_in_range(s) ==
    LET v == IF s # << >> /\ Head(s) = "-" THEN 0 - Magnitude(Unsigned(s))
             ELSE Magnitude(Unsigned(s))
    IN  Max({1, Min({10, v})})
int(s) == IF s # << >> /\ Head(s) = "-" THEN 0 - Magnitude(Unsigned(s)) ELSE Magnitude(Unsigned(s))

\* a URL with the two ids the other way round
FeedbackUrlSwapped(u, c) == <<"feedback", c, u>>
\* the feedback URL: BASE_URL/feedback/<user id>/<campaign id>
FeedbackUrl(u, c) == <<"feedback", u, c>>
ConfirmBody(url) == <<"Thank you for your response!", url>>

\* ------------------------------------------------------------- webhook_sms
Answer(t, r) ==
    /\ reply' = [reply EXCEPT ![t] = r]
    /\ UNCHANGED <<pc, loc, store>>

\* a row with the influence text as it came
ResponseRowUntrimmed(u, c, parts) ==
    [user_id |-> u, campaign_id |-> c, survey_date |-> today,
     joy_rating |-> int(strip(parts[1])),
     achievement_rating |-> int(strip(parts[2])),
     meaningfulness_rating |-> int(strip(parts[3])),
     influence_text |-> parts[4],
     submitted_at |-> today]
\* Response(user_id, campaign_id, survey_date, the ratings, influence_text)
ResponseRow(u, c, parts) ==
    [user_id |-> u, campaign_id |-> c, survey_date |-> today,
     joy_rating |-> int(strip(parts[1])),
     achievement_rating |-> int(strip(parts[2])),
     meaningfulness_rating |-> int(strip(parts[3])),
     influence_text |-> strip(parts[4]),
     submitted_at |-> today]

\* an insert that overwrites the row the user already has for the campaign
\* and the day
UpsertResponse(rows, row) ==
    LET same(i) == /\ rows[i].user_id = row.user_id
                   /\ rows[i].campaign_id = row.campaign_id
                   /\ rows[i].survey_date = row.survey_date
    IN  IF \E i \in 1..Len(rows) : same(i)
        THEN [i \in 1..Len(rows) |-> IF same(i) THEN row ELSE rows[i]]
        ELSE Append(rows, row)
\* db.session.add(response); db.session.commit()
AddResponse(rows, row) == Append(rows, row)

\* a check that asks for the From field only
MissingFrom(from_number, body) == from_number = 0
\* if not from_number or not body
MissingFields(from_number, body) == from_number = 0 \/ body = << >>

\* the handler up to the commit of the Response row
webhook_sms(t) ==
    /\ t \in Requests
    /\ pc[t] = "idle"
    /\ calls > 0
    /\ calls' = calls - 1
    /\ LET from_number == inbound.from
           body == strip(inbound.body)
           parts == split(body)
       IN  IF MissingFields(from_number, body)
           THEN Answer(t, Reply(400, "Missing required fields"))
           ELSE IF UsersByPhone(from_number) = {}
           THEN Answer(t, Reply(404, "User not found"))
           ELSE IF Len(parts) < 4
           THEN Answer(t, Reply(400, "Invalid response format"))
           ELSE IF ~(\A i \in 1..3 : is_int(strip(parts[i])))
           THEN \* except ValueError
                Answer(t, Reply(400, "Invalid response format"))
           ELSE IF ActiveCampaigns = {}
           THEN Answer(t, Reply(404, "No active campaign"))
           ELSE \E c \in ActiveCampaigns :
                  LET u == Min(UsersByPhone(from_number))
                  IN  /\ responses' = AddResponse(responses, ResponseRow(u, c, parts))
                      /\ loc' = [loc EXCEPT ![t].user = u, ![t].campaign = c,
                                            ![t].msg = Len(responses) + 1,
                                            ![t].url = FeedbackUrl(u, c)]
                      /\ pc' = [pc EXCEPT ![t] = "w_confirm"]
                      /\ reply' = [reply EXCEPT ![t] = NoReply]
                      /\ UNCHANGED <<users, campaigns, messages>>
    /\ UNCHANGED <<config, log, result, outbox, returned>>

\* a handler that takes the Response back when the confirmation SMS fails
WebhookConfirmUndo(t) ==
    /\ pc[t] = "w_confirm"
    /\ \E ok \in SendOutcomes :
          /\ outbox' = outbox \cup
                {Request(t, "confirm", users[loc[t].user].phone_number,
                         ConfirmBody(loc[t].url), loc[t].user, loc[t].campaign,
                         today, loc[t].msg, ok)}
          /\ reply' = [reply EXCEPT ![t] =
                IF ok THEN [status |-> 200, error |-> "", feedback_url |-> loc[t].url]
                ELSE Reply(500, "send failed")]
          /\ responses' = IF ok THEN responses
                          ELSE SelectSeq(responses, LAMBDA row : FALSE)
    /\ pc' = [pc EXCEPT ![t] = "idle"]
    /\ loc' = [loc EXCEPT ![t] = Loc0]
    /\ UNCHANGED <<config, log, result, users, campaigns, messages, calls, returned>>
\* the confirmation SMS and the reply
WebhookConfirm(t) ==
    /\ pc[t] = "w_confirm"
    /\ \E ok \in SendOutcomes :
          /\ outbox' = outbox \cup
                {Request(t, "confirm", users[loc[t].user].phone_number,
                         ConfirmBody(loc[t].url), loc[t].user, loc[t].campaign,
                         today, loc[t].msg, ok)}
          /\ reply' = [reply EXCEPT ![t] =
                IF ok THEN [status |-> 200, error |-> "", feedback_url |-> loc[t].url]
                ELSE Reply(500, "send failed")]
    /\ pc' = [pc EXCEPT ![t] = "idle"]
    /\ loc' = [loc EXCEPT ![t] = Loc0]
    /\ UNCHANGED <<config, log, result, store, calls, returned>>

\* ------------------------------------------------------------------- Init
RECURSIVE Join(_)
Join(p) ==
    IF p = << >> THEN << >>
    ELSE IF Len(p) = 1 THEN p[1]
    ELSE p[1] \o <<"/">> \o Join(Tail(p))
\* the POST of the provider: From, and Body, which is the fields the
\* participant typed with a "/" between them
Inbound(from, fields) == [from |-> from, fields |-> fields, body |-> Join(fields)]
NoInbound == Inbound(0, << >>)
\* no phone number, the sample user's, and one that belongs to nobody
SomePhones == {0, 1, 2}
\* no phone number and the sample user's
KnownPhones == {0, 1}

\* the fields inbound bodies are built from
Tokens == {<<"8">>, <<" ", "-", "3", " ">>, <<"a", " ", "b">>, << >>}
Fields == UNION {[1..n -> Tokens] : n \in 1..MaxParts}
\* the example reply of the survey message, shortened: 8/7/9/ok
ExampleFields == <<(<<"8">>), (<<"7">>), (<<"9">>), (<<"o", "k">>)>>

Idle ==
    /\ messages = {}
    /\ responses = << >>
    /\ outbox = {}
    /\ pc = [t \in Threads |-> "idle"]
    /\ loc = [t \in Threads |-> Loc0]
    /\ reply = [t \in Requests |-> NoReply]
    /\ returned = {}
    /\ log = << >>
    /\ result = None

\* create_sample_data on an empty database
SampleUser == [phone_number |-> 1, is_active |-> TRUE]
SampleCampaign ==
    [name |-> SampleName, start_date |-> 1, end_date |-> 1 + 30, is_active |-> TRUE]

\* a date before today, today and a date after today: with the clock standing
\* still only the order of a date relative to today matters
Days == 0..2
CampaignRows ==
    {[name |-> SampleName, start_date |-> s, end_date |-> e, is_active |-> a] :
        s \in Days, e \in Days, a \in BOOLEAN}
StoredUsers ==
    {[i \in 1..NumUsers |-> [phone_number |-> i, is_active |-> flags[i]]] :
        flags \in [1..NumUsers -> BOOLEAN]}

\* the process started on a new database, threads running side by side
Init ==
    /\ today = 1
    /\ use_mock = FALSE
    /\ users = <<SampleUser>>
    /\ campaigns = <<SampleCampaign>>
    /\ inbound = Inbound(SampleUser.phone_number, ExampleFields)
    /\ calls = MaxCalls
    /\ Idle

\* stored SurveyMessage rows of earlier days and of today: at most one for
\* a user, dated around the cutoff of cleanup_old_data or today
PurgeDays == {1 - RetentionDays - 1, 1 - RetentionDays, 1 - RetentionDays + 1, 1}
StoredRow(u, d, st) ==
    [id |-> u, user_id |-> u, campaign_id |-> 1, survey_date |-> d,
     message_sid |-> IF st = "sent" THEN ProviderSid("survey", u) ELSE NoSid,
     status |-> st,
     sent_at |-> IF st = "sent" THEN d ELSE NoDate]
StoredMessages ==
    {{StoredRow(u, f[u][1], f[u][2]) : u \in {v \in 1..NumUsers : f[v][2] # "none"}} :
        f \in [1..NumUsers ->
                 (PurgeDays \X {"pending", "sent", "failed"}) \cup {<<1, "none">>}]}

\* the process on a database with rows of earlier days, the weekly job running
InitPurge ==
    /\ today = 1
    /\ use_mock = FALSE
    /\ users = [i \in 1..NumUsers |-> [phone_number |-> i, is_active |-> TRUE]]
    /\ campaigns = <<SampleCampaign>>
    /\ inbound = NoInbound
    /\ calls = MaxPurges
    /\ messages \in StoredMessages
    /\ responses = << >>
    /\ outbox = {}
    /\ pc = [t \in Threads |-> "idle"]
    /\ loc = [t \in Threads |-> Loc0]
    /\ reply = [t \in Requests |-> NoReply]
    /\ returned = {}
    /\ log = << >>
    /\ result = None

\* the sample database with the sample user's SurveyMessage of today, or
\* none, and one of a day around the cutoff, or none; the weekly job, the
\* daily job and test sends running
InitPurgeSend ==
    /\ today = 1
    /\ use_mock = FALSE
    /\ users = <<SampleUser>>
    /\ campaigns = <<SampleCampaign>>
    /\ inbound = NoInbound
    /\ calls = MaxCalls
    /\ \E new \in {{}, {StoredRow(1, 1, "sent")}} :
       \E old \in {{}} \cup {{[StoredRow(1, d, "sent") EXCEPT !.id = 1 + 1]} :
                                d \in PurgeDays \ {1}} :
          messages = new \cup old
    /\ responses = << >>
    /\ outbox = {}
    /\ pc = [t \in Threads |-> "idle"]
    /\ loc = [t \in Threads |-> Loc0]
    /\ reply = [t \in Requests |-> NoReply]
    /\ returned = {}
    /\ log = << >>
    /\ result = None

\* the process with USE_MOCK_SMS set
InitMock ==
    /\ today = 1
    /\ use_mock = TRUE
    /\ users = [i \in 1..NumUsers |-> [phone_number |-> i, is_active |-> TRUE]]
    /\ campaigns = <<SampleCampaign>>
    /\ inbound = Inbound(SampleUser.phone_number, ExampleFields)
    /\ calls = MaxCalls
    /\ Idle

\* the same on a database that holds users, with is_active set or not
InitMockStored ==
    /\ today = 1
    /\ use_mock = TRUE
    /\ users \in StoredUsers
    /\ campaigns = <<SampleCampaign>>
    /\ inbound = Inbound(SampleUser.phone_number, ExampleFields)
    /\ calls = MaxCalls
    /\ Idle

\* the process started on a database that holds users and a campaign
InitSeq ==
    /\ today = 1
    /\ use_mock = FALSE
    /\ users \in StoredUsers
    /\ \E c \in {r \in CampaignRows : r.start_date <= r.end_date} : campaigns = <<c>>
    /\ inbound = NoInbound
    /\ calls = MaxSeqCalls
    /\ Idle

\* the webhook on every inbound message
InitIngest ==
    /\ today = 1
    /\ use_mock \in BOOLEAN
    /\ \E a \in BOOLEAN : users = <<[SampleUser EXCEPT !.is_active = a]>>
    /\ \E n \in 0..MaxCampaigns : \E flags \in [1..n -> BOOLEAN] :
          campaigns = [i \in 1..n |-> [SampleCampaign EXCEPT !.is_active = flags[i]]]
    /\ \E p \in SomePhones, f \in Fields : inbound = Inbound(p, f)
    /\ calls = 1
    /\ Idle

\* the webhook on a database that holds the sample user, at most one
\* campaign of any date range and at most one SurveyMessage of today; the
\* message is the example reply, one with a text for a rating, one of two
\* fields or a blank one
SomeFields ==
    {ExampleFields,
     <<(<<"8">>), (<<"a", " ", "b">>), (<<"8">>), (<<"o", "k">>)>>,
     <<(<<"8">>), (<<"8">>)>>,
     <<(<<" ">>)>>}
InitStoredIngest ==
    /\ today = 1
    /\ use_mock \in BOOLEAN
    /\ \E a \in BOOLEAN : users = <<[SampleUser EXCEPT !.is_active = a]>>
    /\ \/ campaigns = << >>
       \/ \E c \in CampaignRows : campaigns = <<c>>
    /\ \E p \in SomePhones, f \in SomeFields : inbound = Inbound(p, f)
    /\ calls = 1
    /\ \/ messages = {}
       \/ \E st \in {"pending", "sent", "failed"} : messages = {StoredRow(1, 1, st)}
    /\ responses = << >>
    /\ outbox = {}
    /\ pc = [t \in Threads |-> "idle"]
    /\ loc = [t \in Threads |-> Loc0]
    /\ reply = [t \in Requests |-> NoReply]
    /\ returned = {}
    /\ log = << >>
    /\ result = None

\* the webhook on a message of the sample user with more fields than the
\* reply format has, the sample campaign being active
InitLong ==
    /\ today = 1
    /\ use_mock \in BOOLEAN
    /\ users = <<SampleUser>>
    /\ campaigns = <<SampleCampaign>>
    /\ \E f \in [1..(MaxParts + 1) -> Tokens] :
          inbound = Inbound(SampleUser.phone_number, f)
    /\ calls = 1
    /\ Idle

\* ratings inside and outside 1..10
RatingTokens == {<<"0">>, <<"1", "1">>, <<"-", "3">>, <<"8">>}
\* the webhook on a message of the sample user with any three integers
InitRatings ==
    /\ today = 1
    /\ use_mock \in BOOLEAN
    /\ users = <<SampleUser>>
    /\ campaigns = <<SampleCampaign>>
    /\ \E f \in [1..3 -> RatingTokens] :
          inbound = Inbound(SampleUser.phone_number, f \o <<(<<"o", "k">>)>>)
    /\ calls = 1
    /\ Idle

\* ------------------------------------------------------------------- Next
Dispatch(t) ==
    \/ InsertPending(t)
    \/ SendAndRecord(t)

Batch(t) ==
    \/ send_daily_surveys(t)
    \/ BatchUsers(t)
    \/ BatchUser(t)

\* test_sms for a phone number of phones
TestSms(t, phones) ==
    \/ \E p \in phones : test_sms(t, p)
    \/ TestAddCampaign(t)
    \/ TestDispatch(t)

\* test_sms creating the user of a phone number that belongs to nobody
TestNewUser(t) ==
    \/ TestAddUser(t)
    \/ TestCampaign(t)

Purge(t) ==
    \/ cleanup_old_data(t)
    \/ PurgeCommit(t)

Webhook(t) ==
    \/ webhook_sms(t)
    \/ WebhookConfirm(t)

\* the request thread of a server that gets one request at a time
First == Min(Requests)
\* no other thread is inside a handler or a job
Alone(t) == \A o \in Threads \ {t} : pc[o] = "idle"

\* the scheduler job, test sends to the sample user and the webhook, each
\* on its own thread
Next ==
    \E t \in Threads :
        Batch(t) \/ TestSms(t, KnownPhones) \/ Webhook(t) \/ Dispatch(t)

\* the scheduler job and test sends to any phone number, one after the other
SeqNext ==
    \E t \in {Scheduler, First} :
        Alone(t) /\ (Batch(t) \/ TestSms(t, 0..(NumUsers + 1)) \/ TestNewUser(t)
                     \/ Dispatch(t))

\* the daily job, test sends and the webhook with the mock gateway and its
\* delivery threads
Delivery == \E r \in outbox : simulate_delivery(r)
MockNext ==
    \/ \E t \in {Scheduler, First} :
          Batch(t) \/ TestSms(t, KnownPhones) \/ Webhook(t) \/ Dispatch(t)
    \/ Delivery

\* the daily job and the webhook with the mock gateway and its delivery
\* threads
MockLiveNext ==
    \/ Batch(Scheduler) \/ Dispatch(Scheduler)
    \/ Webhook(First)
    \/ Delivery

\* the weekly job on its own
PurgeNext == Purge(Scheduler)
\* the weekly job, the daily job and test sends to the sample user, the
\* jobs on the scheduler and the test sends on a request thread
PurgeSendNext ==
    \E t \in {Scheduler, First} :
        Purge(t) \/ Batch(t) \/ TestSms(t, KnownPhones) \/ Dispatch(t)

\* one inbound message
IngestNext == (Alone(First) /\ Webhook(First)) \/ Delivery

AddUser(t) ==
    \/ \E name \in BOOLEAN, p \in SomePhones : add_user(t, name, p)
    \/ AddUserCommit(t)

\* add_user and test sends for any phone number, each on its own thread
UserNext ==
    \E t \in Requests :
        AddUser(t) \/ TestSms(t, SomePhones) \/ TestNewUser(t) \/ Dispatch(t)

\* the daily job and test sends to the sample user, side by side
DispatchLiveNext ==
    \E t \in {Scheduler, First} :
        Batch(t) \/ TestSms(t, KnownPhones) \/ Dispatch(t)

\* the daily job on its own, with a gateway whose calls can hang; the
\* scheduler's thread runs whenever it can take a step
HangNext ==
    Batch(Scheduler) \/ Dispatch(Scheduler) \/ GatewayHangs(Scheduler)

\* the daily job on a store whose commit can fail after the gateway call
StoreFailNext ==
    Batch(Scheduler) \/ Dispatch(Scheduler) \/ RecordFails(Scheduler)

Spec == Init /\ [][Next]_vars
SeqSpec == InitSeq /\ [][SeqNext]_vars
IngestSpec == InitIngest /\ [][IngestNext]_vars
PurgeSpec == InitPurge /\ [][PurgeNext]_vars
StoreFailSpec == InitSeq /\ [][StoreFailNext]_vars
PurgeSendSpec == InitPurgeSend /\ [][PurgeSendNext]_vars
MockSpec == InitMock /\ [][MockNext]_vars
StoredIngestSpec == InitStoredIngest /\ [][IngestNext]_vars
LongSpec == InitLong /\ [][IngestNext]_vars
RatingSpec == InitRatings /\ [][IngestNext]_vars
\* the daily job and the webhook with the mock gateway, the delivery threads
\* running whenever they can: a thread that was started and has slept takes
\* its step
MockLiveSpec == InitMockStored /\ [][MockLiveNext]_vars /\ WF_vars(Delivery)
UserSpec == Init /\ [][UserNext]_vars
\* the daily job beside test sends, each thread going on with the call of
\* send_survey_message it is in: the gateway call returns or raises, and
\* the thread runs
DispatchLiveSpec ==
    Init /\ [][DispatchLiveNext]_vars
         /\ \A t \in {Scheduler, First} : WF_vars(Dispatch(t))
HangSpec == InitSeq /\ [][HangNext]_vars /\ WF_vars(HangNext)

\* ============================================================= properties
\* the key of a SurveyMessage row, of a finished call, of a gateway request
RowKey(m) == <<m.user_id, m.campaign_id, m.survey_date>>
CallKey(r) == <<r.user, r.campaign, r.date>>
Keys == {RowKey(m) : m \in messages}
RowsOf(k) == {m \in messages : RowKey(m) = k}
SurveySends(k) == {r \in outbox : r.kind = "survey" /\ CallKey(r) = k}

\* C1: calls of send_survey_message made one after the other for the same
\* (user, campaign, date) leave exactly one stored row for that key, and every
\* one of the calls returns the row with that same id.
C1_SequentialDispatchOneRow ==
    \A r \in returned :
        /\ \E m \in RowsOf(CallKey(r)) : m.id = r.id
        /\ Cardinality(RowsOf(CallKey(r))) = 1
        /\ \A q \in returned : CallKey(q) = CallKey(r) => q.id = r.id
\* a first call created the row of a key and a later call found it
C1_Witness ==
    \E r, q \in returned :
        CallKey(q) = CallKey(r) /\ ~r.existing /\ q.existing

\* C2: with callers of send_survey_message running side by side, exactly one
\* row is inserted for a key and all calls return it: no two stored rows
\* share (user_id, campaign_id, survey_date), and no two calls for a key
\* return different ids.
C2_ConcurrentDispatchOneRow ==
    /\ \A m, n \in messages : RowKey(m) = RowKey(n) => m.id = n.id
    /\ \A r, q \in returned : CallKey(q) = CallKey(r) => q.id = r.id

\* C3: for every key the gateway is asked to send the survey message at most
\* once, whatever the order or overlap of the batch runs and test sends.
C3_AtMostOneSurveySend ==
    \A k \in Keys : Cardinality(SurveySends(k)) <= 1

\* C4: the status of a SurveyMessage is monotonic: a row is stored as
\* pending, and a step changes the status of a stored row only from pending
\* to sent or to failed; a row that is sent or failed keeps its status in
\* every step of the scheduler, of test_sms and of the webhook.
C4_Step ==
    /\ \A n \in messages' :
          (\A m \in messages : m.id # n.id) => n.status = "pending"
    /\ \A m \in messages : \A n \in messages' :
          n.id = m.id =>
             IF m.status = "pending"
             THEN n.status \in {"pending", "sent", "failed"}
             ELSE n.status = m.status
C4_StatusMonotonic == [][C4_Step]_vars
\* a sent row that a later call found and returned, beside a failed row
C4_Witness ==
    /\ \E r \in returned : r.existing /\ r.status = "sent"
    /\ \E m \in messages : m.status = "failed"

\* C5: a call of send_survey_message that finds a row for its key, whatever
\* the row's status, returns a stored row of that key without raising,
\* leaves every SurveyMessage row as it was (status, message_sid and sent_at
\* too) and hands nothing to the gateway; a failed row is not sent again.
C5_Found(t, u, c) ==
    /\ messages' = messages
    /\ outbox' = outbox
    /\ pc'[t] \notin {"d_insert", "d_send"}
    /\ \E r \in returned' :
          /\ r.existing /\ ~r.raised
          /\ \E m \in RowsOf(<<u, c, today>>) : m.id = r.id /\ m.status = r.status
\* thread t is where the batch or test_sms calls send_survey_message(u, c)
C5_AtCall(t, u, c) ==
    IF t = Scheduler
    THEN pc[t] = "batch_user" /\ u = Head(loc[t].uq) /\ c = Head(loc[t].cq)
    ELSE pc[t] \in {"idle", "t_campaign", "t_dispatch"}
C5_ExistingRowReturned ==
    [][\A t \in Threads : \A u \in 1..Len(users) : \A c \in 1..Len(campaigns) :
          (C5_AtCall(t, u, c) /\ RowsOf(<<u, c, today>>) # {}
              /\ send_survey_message(t, u, c))
             => C5_Found(t, u, c)]_vars
\* a call found the failed row of its key and returned it
C5_Witness ==
    \E r \in returned : r.existing /\ r.status = "failed"

\* C6: when the gateway call of send_survey_message fails, the row the call
\* created has status failed with message_sid and sent_at unset, and the call
\* raised to its caller.
C6_FailureRecordedAndRaised ==
    \A r \in outbox :
        (r.kind = "survey" /\ ~r.ok) =>
           /\ \E m \in RowsOf(CallKey(r)) :
                 /\ m.id = r.ref
                 /\ m.status = "failed"
                 /\ m.message_sid = NoSid
                 /\ m.sent_at = NoDate
           /\ \E q \in returned :
                 q.id = r.ref /\ q.raised /\ ~q.existing /\ q.status = "failed"
\* the gateway refused the survey message of a test send, which answered 500
C6_Witness ==
    \E r \in outbox :
        /\ r.kind = "survey" /\ ~r.ok
        /\ r.svc \in Requests /\ pc[r.svc] = "idle" /\ reply[r.svc].status = 500

\* C7: a SurveyMessage has status sent exactly when it has a message_sid
\* and a sent_at, the message_sid being the one the gateway returned for the
\* send of this row's key; pending and failed rows have neither.
C7_SentIffSidAndStamp ==
    \A m \in messages :
        /\ (m.status = "sent") <=> (m.message_sid # NoSid /\ m.sent_at # NoDate)
        /\ m.status # "sent" => (m.message_sid = NoSid /\ m.sent_at = NoDate)
        /\ m.status = "sent" =>
              \E r \in SurveySends(RowKey(m)) :
                  r.ok /\ r.ref = m.id /\ r.sid = m.message_sid
\* a sent row beside a failed one
C7_Witness ==
    /\ \E m \in messages : m.status = "sent" /\ m.message_sid # NoSid
    /\ \E m \in messages : m.status = "failed"

\* C8: send_daily_surveys completes for all users: in the step that ends a
\* run of the job, every pair of an active user and a running campaign has a
\* SurveyMessage for today, failed exactly when the gateway refused its
\* send and sent exactly when the gateway accepted it; a send that fails
\* does not keep the users after it from getting theirs.
C8_Served(u, c) ==
    \E m \in messages' :
        /\ RowKey(m) = <<u, c, today>>
        /\ m.status \in {"sent", "failed"}
        /\ (m.status = "failed") <=>
              (\E r \in outbox' : r.kind = "survey" /\ r.ref = m.id /\ ~r.ok)
        /\ (m.status = "sent") <=>
              (\E r \in outbox' : r.kind = "survey" /\ r.ref = m.id /\ r.ok)
C8_Step ==
    (pc[Scheduler] # "idle" /\ pc'[Scheduler] = "idle") =>
       \A u \in 1..Len(users') : \A c \in 1..Len(campaigns') :
          (users'[u].is_active /\ campaigns'[c].is_active /\ is_running(campaigns'[c]))
             => C8_Served(u, c)
C8_BatchServesEveryPair == [][C8_Step]_vars
\* one run of the job is over: the send of a user failed and the send of a
\* user after that one went through
C8_Witness ==
    /\ pc[Scheduler] = "idle"
    /\ calls = MaxSeqCalls - 1
    /\ \E m, n \in messages :
          /\ m.campaign_id = n.campaign_id /\ m.user_id < n.user_id
          /\ m.status = "failed" /\ n.status = "sent"

\* what the fields an inbound body is built from mean: the integer a field
\* stands for, if it stands for one, and the field without the blanks around it
Ratings == (<<"8">> :> 8) @@ (<<" ", "-", "3", " ">> :> (0 - 3))
Trimmed ==
    (<<"8">> :> <<"8">>) @@ (<<" ", "-", "3", " ">> :> <<"-", "3">>)
       @@ (<<"a", " ", "b">> :> <<"a", " ", "b">>) @@ (<< >> :> << >>)
Sender == {i \in 1..Len(users) : users[i].phone_number = inbound.from}
Handled == calls = 0 /\ pc[First] = "idle"

\* C9: the webhook, for a body joy/achievement/meaningfulness/influence of
\* three integers and a text from the phone of a user, with one campaign
\* active, adds exactly one Response row: that user's id, the active
\* campaign's id, survey_date today, the three integers and the text without
\* the blanks around it; once its confirmation SMS went out it answers
\* success with the feedback URL of the user's id and the campaign's id.
C9_Case ==
    /\ Sender # {}
    /\ Len(inbound.fields) = 4
    /\ \A i \in 1..3 : inbound.fields[i] \in DOMAIN Ratings
    /\ Cardinality(ActiveCampaigns) = 1
C9_IngestStoresOneResponse ==
    (C9_Case /\ calls = 0) =>
       \E u \in Sender : \E c \in ActiveCampaigns :
          /\ responses =
                <<[user_id |-> u, campaign_id |-> c, survey_date |-> today,
                   joy_rating |-> Ratings[inbound.fields[1]],
                   achievement_rating |-> Ratings[inbound.fields[2]],
                   meaningfulness_rating |-> Ratings[inbound.fields[3]],
                   influence_text |-> Trimmed[inbound.fields[4]],
                   submitted_at |-> today]>>
          /\ pc[First] = "idle" =>
                \E r \in outbox :
                    /\ r.kind = "confirm"
                    /\ r.ok => /\ reply[First].status = 200
                               /\ Len(reply[First].feedback_url) = 3
                               /\ reply[First].feedback_url[2] = u
                               /\ reply[First].feedback_url[3] = c
\* the webhook answered success for a reply whose text came with blanks
C9_Witness ==
    /\ C9_Case /\ Handled
    /\ inbound.fields[1] # inbound.fields[2]
    /\ inbound.fields[4] = <<" ", "-", "3", " ">>
    /\ Len(responses) = 1
    /\ reply[First].status = 200

\* C10: the webhook, for a body from the phone of a user that has fewer than
\* four fields or a field among the first three that is not an integer,
\* answers a client error (400), stores no Response and sends no
\* confirmation SMS.
C10_Case ==
    /\ Sender # {}
    /\ \/ Len(inbound.fields) < 4
       \/ \E i \in 1..3 : inbound.fields[i] \notin DOMAIN Ratings
C10_MalformedRejected ==
    (C10_Case /\ calls = 0) =>
       /\ pc[First] = "idle"
       /\ reply[First].status = 400
       /\ reply[First].error =
             IF inbound.body = << >> THEN "Missing required fields"
             ELSE "Invalid response format"
       /\ responses = << >>
       /\ outbox = {}
\* a reply of four fields, the second not an integer, with a campaign active
C10_Witness ==
    /\ C10_Case /\ Handled
    /\ Len(inbound.fields) = 4
    /\ inbound.fields[2] = <<"a", " ", "b">>
    /\ ActiveCampaigns # {}
    /\ reply[First].status = 400

\* C11: the webhook, for a body that is not blank from a phone number that
\* belongs to no user, answers not found (404, "User not found"), stores no
\* Response, adds no User and hands nothing to the gateway.
C11_Case ==
    /\ inbound.from # 0
    /\ Sender = {}
    /\ \E i \in 1..Len(inbound.fields) : inbound.fields[i] # << >>
C12_Case ==
    /\ Sender # {}
    /\ Len(inbound.fields) >= 4
    /\ \A i \in 1..3 : inbound.fields[i] \in DOMAIN Ratings
    /\ \A i \in 1..Len(campaigns) : ~campaigns[i].is_active
C12_NoActiveCampaignRejected ==
    (C12_Case /\ calls = 0) =>
       /\ pc[First] = "idle"
       /\ reply[First].error = "No active campaign"
       /\ reply[First].status \in 400..499
       /\ responses = << >>
       /\ outbox = {}
\* a well-formed reply came in while campaigns exist and none is active
C12_Witness ==
    /\ C12_Case /\ Handled
    /\ campaigns # << >>
    /\ reply[First].error = "No active campaign"

\* C13 as stated: the three ways the webhook turns a message away map to
\* statuses so that an unknown sender gives not found (404) while a
\* malformed body and a missing active campaign both give a client error
\* (400): the status for "no active campaign" differs from the one for an
\* unknown sender.
C13_StatusesAsStated ==
    (calls = 0 /\ pc[First] = "idle") =>
       /\ C11_Case => reply[First].status = 404
       /\ C10_Case => reply[First].status = 400
       /\ C12_Case => reply[First].status = 400
\* C13 as the webhook does it: an unknown sender gives 404 "User not
\* found", a malformed body gives 400, and a missing active campaign gives
\* 404 as the unknown sender does; the caller tells the three apart by the
\* error text, not by the status.
C13_StatusesAsAnswered ==
    (calls = 0 /\ pc[First] = "idle") =>
       /\ C11_Case =>
             /\ reply[First].status = 404
             /\ reply[First].error = "User not found"
       /\ C10_Case =>
             /\ reply[First].status = 400
             /\ reply[First].error \in
                   {"Invalid response format", "Missing required fields"}
       /\ C12_Case =>
             /\ reply[First].status = 404
             /\ reply[First].error = "No active campaign"
\* a well-formed reply was answered 404 because no campaign is active
C13_Witness ==
    /\ C12_Case /\ Handled
    /\ reply[First].status = 404
    /\ reply[First].error # "User not found"

\* C14: the webhook inserts a Response whenever it accepts a message: a
\* step leaves the stored rows as they are and adds at most one after them,
\* and there are as many rows as messages accepted so far, also when the
\* messages come from the same user for the same campaign on the same day.
C14_Accepted ==
    Cardinality({r \in outbox : r.kind = "confirm"})
       + Cardinality({t \in Requests : pc[t] = "w_confirm"})
C14_Step ==
    /\ \/ responses' = responses
       \/ /\ Len(responses') = Len(responses) + 1
          /\ SubSeq(responses', 1, Len(responses)) = responses
    /\ Len(responses') = C14_Accepted'
C14_ResponsesOnlyAppended == [][C14_Step]_vars
\* two messages of one user for one campaign on one day were both answered
\* success, and there are two rows
C14_Witness ==
    /\ Len(responses) = 2
    /\ responses[1] = responses[2]
    /\ Cardinality({r \in outbox : r.kind = "confirm" /\ r.ok}) = 2

\* C15: when the confirmation SMS at the end of the webhook fails, the
\* Response row the webhook committed before it is still stored as it was
\* committed, and the caller gets an error reply, not success.
C15_FailedConfirmKeepsResponse ==
    \A r \in outbox :
        (r.kind = "confirm" /\ ~r.ok) =>
           /\ r.ref \in 1..Len(responses)
           /\ responses[r.ref] =
                 [user_id |-> r.user, campaign_id |-> r.campaign,
                  survey_date |-> today,
                  joy_rating |-> Ratings[inbound.fields[1]],
                  achievement_rating |-> Ratings[inbound.fields[2]],
                  meaningfulness_rating |-> Ratings[inbound.fields[3]],
                  influence_text |-> Trimmed[inbound.fields[4]],
                  submitted_at |-> today]
           /\ reply[First].status = 500
           /\ reply[First].feedback_url = << >>
\* the gateway refused the confirmation SMS of an accepted message
C15_Witness ==
    /\ Handled
    /\ Len(responses) = 1
    /\ \E r \in outbox : r.kind = "confirm" /\ ~r.ok /\ r.to = inbound.from

\* C16: cleanup_old_data with its cutoff of 90 days before today deletes
\* all the SurveyMessage rows dated before the cutoff and no other row: a
\* row dated at the cutoff stays with every field as it was; a second run
\* right after the first deletes nothing.
C16_Step ==
    (pc[Scheduler] = "purge" /\ pc'[Scheduler] = "idle") =>
       /\ messages' = {m \in messages : ~(m.survey_date < today - 90)}
       /\ calls <= MaxPurges - 2 => messages' = messages
C16_PurgeStrictlyBeforeCutoff == [][C16_Step]_vars
\* a first run deleted rows, a second run none, and a row dated at the
\* cutoff is still stored
C16_Witness ==
    /\ Len(log) = 2 /\ log[1] > 0 /\ log[2] = 0
    /\ \E m \in messages : m.survey_date = today - 90 /\ m.status = "sent"

\* C17: is_running is true exactly when the campaign has is_active set and
\* start_date <= today <= end_date, both ends included: a campaign that
\* starts and ends today is running, one whose range does not hold today
\* or whose flag is off is not; the daily job sends for the running ones only.
C17_InRange(c) == c.is_active /\ c.start_date <= today /\ today <= c.end_date
C17_RunningExactlyInRange ==
    /\ \A i \in 1..Len(campaigns) :
          is_running(campaigns[i]) <=> C17_InRange(campaigns[i])
    /\ \A r \in returned :
          r.caller = "batch" => C17_InRange(campaigns[r.campaign])
\* the daily job sent for a campaign that starts and ends today
C17_Witness ==
    \E r \in returned :
        /\ r.caller = "batch"
        /\ campaigns[r.campaign].start_date = today
        /\ campaigns[r.campaign].end_date = today

\* C18: send_sms of the mock gateway returns before the message is marked
\* delivered: in the step in which a send returns, the message it made has
\* status queued and its caller goes on with the result; a send is never
\* held up by messages whose delivery has not happened yet, and it does
\* not fail.
C18_New(r) == \A q \in outbox : q.kind # r.kind \/ q.ref # r.ref
C18_Step ==
    \A r \in outbox' :
        C18_New(r) =>
           /\ r.status = "queued"
           /\ r.ok
           /\ r.kind = "survey" =>
                 \E x \in returned' : x.id = r.ref /\ x.status = "sent" /\ ~x.raised
           /\ r.kind = "confirm" =>
                 pc'[r.svc] = "idle" /\ reply'[r.svc].status = 200
C18_NotHeldUp ==
    \A t \in Threads :
        /\ pc[t] = "d_send" => ENABLED SendAndRecord(t)
        /\ pc[t] = "w_confirm" => ENABLED WebhookConfirm(t)
C18_SendReturnsBeforeDelivery == []C18_NotHeldUp /\ [][C18_Step]_vars
\* a message was sent and is queued while an earlier one is delivered and
\* another is not yet
C18_Witness ==
    \E r, q \in outbox :
        /\ r.kind = "survey" /\ q.kind = "survey" /\ r.ref < q.ref
        /\ r.status = "delivered" /\ q.status = "queued"
        /\ \E x \in returned : x.id = q.ref

\* C19: a test send is a call of send_survey_message like any other: test
\* sends made one after the other on one day for one phone number leave one
\* SurveyMessage of the test campaign for that user, all return that row,
\* and the gateway is asked to send the survey message for it once at most.
C19_IsTest(u, x) ==
    x.user = u /\ x.date = today /\ campaigns[x.campaign].name = TestName
C20_Step ==
    /\ \A t \in Threads :
          pc'[t] = "d_send" =>
             \E m \in messages' :
                /\ m.id = loc'[t].msg
                /\ RowKey(m) = <<loc'[t].user, loc'[t].campaign, loc'[t].date>>
                /\ m.status = "pending"
    /\ \A r \in outbox' :
          (r.kind = "survey" /\ C18_New(r)) =>
             \E m \in messages :
                m.id = r.ref /\ RowKey(m) = CallKey(r) /\ m.status = "pending"
C20_PendingStoredBeforeSend == [][C20_Step]_vars
\* a thread stands before its gateway call, after another call of the
\* gateway was made
C20_Witness ==
    /\ \E r \in outbox : r.kind = "survey"
    /\ \E t \in Threads :
          /\ pc[t] = "d_send"
          /\ \E m \in messages : m.id = loc[t].msg /\ m.status = "pending"
          /\ \A r \in outbox : r.kind = "survey" => r.ref # loc[t].msg

\* C21: send_daily_surveys calls send_survey_message only for pairs of a
\* user with is_active set and a campaign that has is_active set and whose
\* range holds today: no call of the job, and so no row the job created, is
\* for a user or a campaign without the flag or for a campaign out of range;
\* and when a run of the job ends every user with the flag has exactly one
\* SurveyMessage of today for every running campaign.
C21_Eligible(u, c) ==
    /\ users'[u].is_active
    /\ campaigns'[c].is_active
    /\ campaigns'[c].start_date <= today /\ today <= campaigns'[c].end_date
C21_Step ==
    /\ \A r \in returned' : r.caller = "batch" => C21_Eligible(r.user, r.campaign)
    /\ (pc[Scheduler] # "idle" /\ pc'[Scheduler] = "idle") =>
          \A u \in 1..Len(users') : \A c \in 1..Len(campaigns') :
             C21_Eligible(u, c) =>
                Cardinality({m \in messages' : RowKey(m) = <<u, c, today>>}) = 1
C21_BatchOnlyEligiblePairs == [][C21_Step]_vars
\* a run of the job is over that made a row, with a user and a campaign in
\* the store that do not have the flag and have no row of the job
C21_Witness ==
    /\ pc[Scheduler] = "idle" /\ pc[First] = "idle"
    /\ \E u \in 1..Len(users) : ~users[u].is_active
    /\ \E c \in 1..Len(campaigns) : ~campaigns[c].is_active
    /\ \E r \in returned : r.caller = "batch" /\ ~r.existing

\* C22: send_survey_message is only ever run for a user with is_active set:
\* neither the daily job nor a test send stores a SurveyMessage or hands the
\* gateway a survey message for a user whose is_active is false.
C22_DispatchOnlyActiveUsers ==
    /\ \A m \in messages : users[m.user_id].is_active
    /\ \A r \in outbox : r.kind = "survey" => users[r.user].is_active

\* C23 as stated: the webhook looks the sender up first: a message from a
\* phone number that belongs to no user is answered not found (404) whatever
\* its body is, a blank body too; a malformed body from a user's phone is
\* answered 400 whether or not a campaign is active; and a message that is
\* turned away leaves the tables and the gateway as they were.
C23_Stranger == inbound.from # 0 /\ Sender = {}
C23_Blank == \A i \in 1..Len(inbound.body) : inbound.body[i] = " "
C23_Untouched ==
    /\ responses = << >>
    /\ messages = {}
    /\ Len(users) = 1 /\ users[1].phone_number = SampleUser.phone_number
    /\ outbox = {}
C23_SenderFirst ==
    (calls = 0 /\ pc[First] = "idle") =>
       /\ C23_Stranger =>
             reply[First].status = 404 /\ reply[First].error = "User not found"
       /\ C10_Case => reply[First].status = 400
       /\ reply[First].status \in {400, 404} => C23_Untouched
\* C23 as the webhook does it: a blank body is answered 400 "Missing
\* required fields" before the sender is looked up, from a stranger as from
\* a user; a body that is not blank from a stranger is answered 404 "User
\* not found", well-formed or not; a malformed body that is not blank from
\* a user's phone is answered 400 "Invalid response format" whether or not a
\* campaign is active; a message answered 400 or 404 leaves the tables and
\* the gateway as they were.
C23_BlankThenSender ==
    (calls = 0 /\ pc[First] = "idle") =>
       /\ (inbound.from # 0 /\ C23_Blank) =>
             /\ reply[First].status = 400
             /\ reply[First].error = "Missing required fields"
       /\ (C23_Stranger /\ ~C23_Blank) =>
             /\ reply[First].status = 404
             /\ reply[First].error = "User not found"
       /\ (C10_Case /\ ~C23_Blank) =>
             /\ reply[First].status = 400
             /\ reply[First].error = "Invalid response format"
       /\ reply[First].status \in {400, 404} => C23_Untouched
\* a stranger's blank message was answered 400
C23_Witness ==
    /\ Handled
    /\ C23_Stranger /\ C23_Blank
    /\ reply[First].status = 400

\* C24: a gateway call of the daily job that never returns holds up the
\* SurveyMessage of that user only: every user after that one in the same
\* run of the job still gets the call of send_survey_message, and so a
\* SurveyMessage of today, in the end.
C24_Waiting(v) ==
    /\ pc[Scheduler] = "d_hung"
    /\ \E i \in 2..Len(loc[Scheduler].uq) : loc[Scheduler].uq[i] = v
C24_Dispatched(v) ==
    \E m \in messages : m.user_id = v /\ m.survey_date = today
C24_HangBlocksOnlyOne ==
    \A v \in 1..NumUsers : C24_Waiting(v) ~> C24_Dispatched(v)

\* C25: for a body of more than four fields whose first three are integers
\* the webhook stores a Response, with the three integers, whose
\* influence_text is the fourth field without the blanks around it: what
\* comes after the fourth "/" is not stored; and it answers success once
\* the confirmation SMS went out.
C25_Case ==
    /\ Len(inbound.fields) > 4
    /\ \A i \in 1..3 : inbound.fields[i] \in DOMAIN Ratings
C25_OnlyFourthPartStored ==
    (C25_Case /\ calls = 0) =>
       /\ Len(responses) = 1
       /\ responses[1].joy_rating = Ratings[inbound.fields[1]]
       /\ responses[1].achievement_rating = Ratings[inbound.fields[2]]
       /\ responses[1].meaningfulness_rating = Ratings[inbound.fields[3]]
       /\ responses[1].influence_text = Trimmed[inbound.fields[4]]
       /\ pc[First] = "idle" =>
             \E r \in outbox :
                 r.kind = "confirm" /\ (r.ok => reply[First].status = 200)
\* a message with text after the fourth "/" was answered success
C25_Witness ==
    /\ C25_Case /\ Handled
    /\ inbound.fields[4] = <<"a", " ", "b">>
    /\ inbound.fields[Len(inbound.fields)] = <<" ", "-", "3", " ">>
    /\ Len(responses) = 1
    /\ reply[First].status = 200

\* C26: the webhook does not hold the ratings to 1..10: a message whose
\* first three fields are integers, 0, negative or above 10 among them, is
\* not turned away as malformed, and the Response stored has the three
\* integers as they were sent.
C26_Sent == (<<"0">> :> 0) @@ (<<"1", "1">> :> 11) @@ (<<"-", "3">> :> (0 - 3))
               @@ (<<"8">> :> 8)
C26_RatingsStoredAsGiven ==
    calls = 0 =>
       /\ Len(responses) = 1
       /\ responses[1].joy_rating = C26_Sent[inbound.fields[1]]
       /\ responses[1].achievement_rating = C26_Sent[inbound.fields[2]]
       /\ responses[1].meaningfulness_rating = C26_Sent[inbound.fields[3]]
       /\ reply[First].status # 400
\* 0/11/-3/ok was stored and answered success
C26_Witness ==
    /\ Handled
    /\ Len(responses) = 1
    /\ responses[1].joy_rating = 0
    /\ responses[1].achievement_rating = 11
    /\ responses[1].meaningfulness_rating = 0 - 3
    /\ reply[First].status = 200

\* C27 as stated: cleanup_old_data returns to its caller the number of
\* SurveyMessage rows it deleted.
C27_Deleted == Cardinality(messages) - Cardinality(messages')
C27_PurgeEnds == pc[Scheduler] = "purge" /\ pc'[Scheduler] = "idle"
C27_ReturnsCount ==
    [][C27_PurgeEnds => result' = <<C27_Deleted>>]_vars
\* C27 as cleanup_old_data does it: the job returns nothing; it writes the
\* number of rows it deleted to the log, one line a run, and that number is
\* the number of stored rows dated before the cutoff when the job ran.
C27_Step ==
    C27_PurgeEnds =>
       /\ result' = << >>
       /\ Len(log') = Len(log) + 1
       /\ log'[Len(log')] = C27_Deleted
       /\ log'[Len(log')] =
             Cardinality({m \in messages : m.survey_date < today - 90})
C27_LogsCount == [][C27_Step]_vars
\* a run deleted one row of two and logged 1
C27_Witness ==
    /\ Len(log) = 1 /\ log[1] = 1
    /\ Cardinality(messages) = 1
    /\ pc[Scheduler] = "idle"

\* C28: every message the mock gateway took is marked delivered in the end
\* by its delivery thread; a message is marked delivered only after send_sms
\* put it, queued, into sent_messages; and a delivered message stays
\* delivered.
C28_Refs == 1..Max({NumUsers, MaxCalls})
C28_Is(r, k, n, st) == r.kind = k /\ r.ref = n /\ r.status = st
C28_Step ==
    /\ \A r \in outbox' :
          r.status = "delivered" =>
             \E q \in outbox :
                 /\ q.status \in {"queued", "delivered"}
                 /\ q = [r EXCEPT !.status = q.status]
    /\ \A q \in outbox :
          q.status = "delivered" =>
             /\ q \in outbox'
             /\ \A r \in outbox' : ~C28_Is(r, q.kind, q.ref, "queued")
C28_EventuallyDelivered ==
    /\ [](\A r \in outbox : r.ref \in C28_Refs /\ r.status \in {"queued", "delivered"})
    /\ [][C28_Step]_vars
    /\ \A k \in {"survey", "confirm"} : \A n \in C28_Refs :
          (\E r \in outbox : C28_Is(r, k, n, "queued"))
             ~> (\E r \in outbox : C28_Is(r, k, n, "delivered"))
\* a survey message and a confirmation SMS are both delivered, nothing is
\* queued
C28_Witness ==
    /\ \E r \in outbox : r.kind = "survey" /\ r.status = "delivered"
    /\ \E r \in outbox : r.kind = "confirm" /\ r.status = "delivered"
    /\ \A r \in outbox : r.status = "delivered"

\* C29: the ids the gateway returns work as tracking ids: no two sends that
\* the gateway accepted have the same id, and no two SurveyMessage rows with
\* status sent have the same message_sid, also with the mock gateway, with
\* sends within one second and with an SMSService built for every request.
C29_SidsUnique ==
    /\ \A r, q \in outbox :
          (r.ok /\ q.ok /\ r.sid = q.sid) => (r.kind = q.kind /\ r.ref = q.ref)
    /\ \A m, n \in messages :
          (m.status = "sent" /\ n.status = "sent"
              /\ m.message_sid = n.message_sid) => m.id = n.id

\* C30: every Response has the id of a stored User and the id of a stored
\* Campaign; in the step that stores a Response the user is the stored user
\* with the sender's phone number and the campaign has is_active set; users
\* and campaigns are never deleted afterwards.
C30_Step ==
    /\ \A i \in 1..Len(responses') :
          /\ responses'[i].user_id \in 1..Len(users')
          /\ responses'[i].campaign_id \in 1..Len(campaigns')
    /\ \A i \in (Len(responses) + 1)..Len(responses') :
          /\ responses'[i].user_id \in 1..Len(users)
          /\ users[responses'[i].user_id].phone_number = inbound.from
          /\ responses'[i].campaign_id \in 1..Len(campaigns)
          /\ campaigns[responses'[i].campaign_id].is_active
    /\ Len(users') >= Len(users) /\ Len(campaigns') >= Len(campaigns)
C30_ResponseReferences == [][C30_Step]_vars
\* a Response was stored for the second campaign, the first not being active
C30_Witness ==
    /\ Handled
    /\ Len(responses) = 1
    /\ Len(campaigns) = 2 /\ ~campaigns[1].is_active
    /\ responses[1].campaign_id = 2

\* C31: the webhook sends its confirmation SMS after the Response row is
\* committed: a confirmation handed to the gateway is for a row that was
\* stored before that step, goes to the phone number the message came from,
\* which is that user's, and has the feedback URL of the row's user id and
\* campaign id; every stored Response gets exactly one confirmation, and
\* there is no confirmation without a Response.
C31_New(r) ==
    r.kind = "confirm" /\ \A q \in outbox : q.kind # "confirm" \/ q.ref # r.ref
C31_Step ==
    /\ \A r \in outbox' :
          C31_New(r) =>
             /\ r.ref \in 1..Len(responses)
             /\ responses[r.ref].user_id = r.user
             /\ responses[r.ref].campaign_id = r.campaign
             /\ r.to = inbound.from
             /\ r.to = users[r.user].phone_number
             /\ r.body = <<"Thank you for your response!",
                           <<"feedback", r.user, r.campaign>>>>
    /\ \A r \in outbox' : r.kind = "confirm" => r.ref \in 1..Len(responses')
    /\ \A i \in 1..Len(responses') :
          Cardinality({r \in outbox' : r.kind = "confirm" /\ r.ref = i})
             + Cardinality({t \in Requests : pc'[t] = "w_confirm" /\ loc'[t].msg = i})
          = 1
C31_ConfirmAfterCommit == [][C31_Step]_vars
\* the confirmation of a Response for the second campaign went out
C31_Witness ==
    /\ Handled
    /\ Len(responses) = 1
    /\ \E r \in outbox : r.kind = "confirm" /\ r.ok /\ r.campaign = 2 /\ r.ref = 1
    /\ reply[First].status = 200

\* C32: phone numbers are unique: whatever the order or overlap of add_user
\* and test sends, no two User rows have the same phone_number, so the
\* webhook's lookup of a sender finds one user at most; add_user for a phone
\* number that a row already has answers an error and leaves the User table
\* as it was, and every step leaves the rows of the table as they are.
C32_Has(p) == \E i \in 1..Len(users) : users[i].phone_number = p
C32_Step ==
    /\ \A i, j \in 1..Len(users') :
          users'[i].phone_number = users'[j].phone_number => i = j
    /\ Cardinality({i \in 1..Len(users') : users'[i].phone_number = inbound.from}) <= 1
    /\ SubSeq(users', 1, Len(users)) = users
    /\ \A t \in Requests : \A p \in SomePhones :
          LET called == /\ pc[t] = "idle" /\ calls > 0
                        /\ add_user(t, TRUE, p)
              commits == pc[t] = "a_adduser" /\ loc[t].phone = p /\ AddUserCommit(t)
          IN  (C32_Has(p) /\ (called \/ commits)) =>
                 /\ users' = users
                 /\ pc'[t] = "idle"
                 /\ reply'[t].status \in {400, 500}
                 /\ reply'[t].error # ""
C32_PhoneNumbersUnique == [][C32_Step]_vars
\* add_user was answered an error for a phone number that a test send, which
\* ran beside it, had stored first
C32_Witness ==
    /\ Len(users) = 2
    /\ \E t \in Requests :
          pc[t] = "idle" /\ reply[t].status = 500 /\ reply[t].error = "IntegrityError"
    /\ \E x \in returned : x.user = 2 /\ x.caller = "test"

\* C33: with every gateway call returning or raising and every thread
\* running on, no SurveyMessage stays pending: a row that is stored as
\* pending gets status sent or failed in the end, and keeps it.
C33_Ids == 1..(MaxCalls + 1)
C33_Has(id, statuses) == \E m \in messages : m.id = id /\ m.status \in statuses
C34_Served ==
    \A u \in 1..Len(users) : \A c \in 1..Len(campaigns) :
       (/\ users[u].is_active /\ campaigns[c].is_active
        /\ campaigns[c].start_date <= today /\ today <= campaigns[c].end_date)
          => \E m \in messages :
                /\ m.user_id = u /\ m.campaign_id = c /\ m.survey_date = today
                /\ m.status \in {"sent", "failed"}
C34_JobStep == pc'[Scheduler] # pc[Scheduler] \/ loc'[Scheduler] # loc[Scheduler]
                  \/ (pc[Scheduler] = "idle" /\ pc[First] = "idle" /\ calls' # calls
                         /\ reply' = reply /\ pc'[First] = "idle")
C34_Step ==
    /\ (pc[Scheduler] # "idle" /\ pc'[Scheduler] = "idle") => C34_Served'
    /\ (C34_Served /\ C34_JobStep) =>
          /\ messages' = messages
          /\ outbox' = outbox
          /\ users' = users /\ campaigns' = campaigns
C34_BatchIdempotent == [][C34_Step]_vars
\* two runs of the job, nothing else: the second found the failed row and
\* the sent row of the first
C34_Witness ==
    /\ calls = MaxSeqCalls - 2
    /\ \A t \in Threads : pc[t] = "idle"
    /\ reply[First] = NoReply
    /\ \A r \in returned : r.caller = "batch"
    /\ \E r \in returned : r.existing /\ r.status = "failed"
    /\ \E r \in returned : r.existing /\ r.status = "sent"

\* C35: the webhook leaves the SurveyMessage table as it is: no step of it,
\* on a message it accepts or on one it rejects, adds, deletes or changes a
\* SurveyMessage, and what it answers and stores follows from the message,
\* the users and the campaigns alone, the same with and without a
\* SurveyMessage for the user, the campaign and today.
C35_Blank == \A i \in 1..Len(inbound.fields) : inbound.fields[i] \in {<< >>, <<" ">>}
C35_Malformed ==
    \/ Len(inbound.fields) < 4
    \/ \E i \in 1..3 : inbound.fields[i] \notin {<<"8">>, <<"7">>, <<"9">>}
C35_Active == {i \in 1..Len(campaigns) : campaigns[i].is_active}
C35_Outcome ==
    IF inbound.from = 0 \/ C35_Blank
    THEN reply[First].status = 400 /\ responses = << >>
    ELSE IF Sender = {}
    THEN reply[First].status = 404 /\ responses = << >>
    ELSE IF C35_Malformed
    THEN reply[First].status = 400 /\ responses = << >>
    ELSE IF C35_Active = {}
    THEN reply[First].status = 404 /\ responses = << >>
    ELSE /\ reply[First].status \in {200, 500}
         /\ Len(responses) = 1
         /\ responses[1].user_id \in Sender
         /\ responses[1].campaign_id \in C35_Active
C35_Step == messages' = messages /\ (Handled' => C35_Outcome')
C35_IngestLeavesMessages == [][C35_Step]_vars
\* a reply was accepted with the user's SurveyMessage of today stored, failed
C35_Witness ==
    /\ Handled
    /\ reply[First].status = 200
    /\ Len(responses) = 1
    /\ \E m \in messages :
          /\ m.user_id = responses[1].user_id
          /\ m.campaign_id = responses[1].campaign_id
          /\ m.survey_date = today
          /\ m.status = "failed"

\* C36: the webhook takes a campaign with is_active set, whatever its date
\* range, and does not read the user's is_active: a reply of three integers
\* and a text from the phone of a user is stored as a Response of that user
\* and that campaign, also when the campaign is not running today and the
\* user's is_active is not set.
C36_Case ==
    /\ Sender # {}
    /\ inbound.fields = ExampleFields
    /\ \E i \in 1..Len(campaigns) : campaigns[i].is_active
C36_StoredWhateverDatesAndUser ==
    (C36_Case /\ Handled) =>
       /\ Len(responses) = 1
       /\ users[responses[1].user_id].phone_number = inbound.from
       /\ campaigns[responses[1].campaign_id].is_active
       /\ responses[1].survey_date = today
       /\ reply[First].status # 404
\* a reply of a user with is_active not set was accepted for a campaign
\* that ended before today
C36_Witness ==
    /\ C36_Case /\ Handled
    /\ reply[First].status = 200
    /\ Len(responses) = 1
    /\ ~users[responses[1].user_id].is_active
    /\ campaigns[responses[1].campaign_id].end_date < today

\* C37: cleanup_old_data never causes a second send: it deletes only rows
\* dated more than 90 days before today, and send_survey_message looks up
\* today's date, so with the weekly job, the daily job and test sends in any
\* order no step deletes or changes the key of a SurveyMessage of today, and
\* a call of send_survey_message goes on to insert and send only when no row
\* for its user, its campaign and today is stored.
C37_Step ==
    /\ \A m \in messages :
          m.survey_date = today =>
             \E n \in messages' :
                /\ n.id = m.id
                /\ n.user_id = m.user_id
                /\ n.campaign_id = m.campaign_id
                /\ n.survey_date = today
    /\ \A t \in {Scheduler, First} :
          (pc[t] # "d_insert" /\ pc'[t] = "d_insert") =>
             ~\E m \in messages :
                 /\ m.user_id = loc'[t].user
                 /\ m.campaign_id = loc'[t].campaign
                 /\ m.survey_date = today
C37_PurgeNeverCausesResend == [][C37_Step]_vars
\* the weekly job deleted a row, the stored row of today is still there,
\* the daily job found it and nothing was handed to the gateway for it
C37_Witness ==
    /\ log # << >> /\ log[1] > 0
    /\ pc[Scheduler] = "idle"
    /\ \E m \in messages :
          /\ m.survey_date = today /\ m.status = "sent"
          /\ \E r \in returned :
                /\ r.caller = "batch" /\ r.existing
                /\ r.user = m.user_id /\ r.campaign = m.campaign_id
          /\ ~\E q \in outbox :
                q.kind = "survey" /\ q.user = m.user_id /\ q.campaign = m.campaign_id

\* C38: a SurveyMessage has status failed only when the gateway did not
\* accept its message: no row with status failed belongs to a request the
\* gateway accepted, also when the commit that records the success raised.
C38_FailedOnlyWhenRejected ==
    \A m \in messages :
       m.status = "failed" =>
          ~\E q \in outbox :
              /\ q.kind = "survey" /\ q.ok
              /\ q.ref = m.id
              /\ <<q.user, q.campaign, q.date>> = <<m.user_id, m.campaign_id, m.survey_date>>
====
